---- MODULE Spec2Model ----
(***************************************************************************)
(* The verifier of the challenge-response protocol (src/src/bin/verifier.rs)*)
(* as a state machine: the NonceStore behind Arc<Mutex<..>>, the two Rocket *)
(* handlers /nonce and /verify run by concurrent connections, and the       *)
(* monotonic clock the store reads; and the holder's four scenarios         *)
(* (src/src/bin/holder.rs) as the script main() runs.                       *)
(***************************************************************************)
EXTENDS Integers, FiniteSets, Sequences, TLC

\* ------------------------------------------------------------------ bounds
\* The clock stops advancing at MaxTime (seconds since the server started).
MaxTime == 6

\* Uuid values the generator can hand out, concurrent connections, key pairs.
Nonces == {"n1", "n2"}
Clients == {"a", "b"}
Keys == {"K1", "K2"}

\* ------------------------------------------------------ program constants
\* rocket(): NonceStore::new(5)
ExpirationSeconds == 5

\* The instants (seconds since the server started) at which the clock is
\* read: early ones, and those far enough to leave the expiration window of
\* a nonce issued early (elapsed = 5 is the boundary, elapsed > 5 is expired).
Instants == {0, 1} \cup ((ExpirationSeconds + 1) .. MaxTime)

\* holder.rs main(): MESSAGE, and test_3's wrong message
MESSAGE == "Hello, world!"
RANDOM_MESSAGE == "RANDOM MESSAGE"

\* Standard Ed25519 encodings the ring primitive insists on.
ED25519_PUBLIC_KEY_LEN == 32
ED25519_SIGNATURE_LEN == 64

\* ------------------------------------------------------------- data model
\* types.rs Payload: the four fields serde requires.
PayloadFields == {"nonce", "message", "signature", "public_key"}

\* key_pair.public_key().as_ref(): the 32 bytes of the public half of k.
PublicKeyBytes(k) == [key |-> k, len |-> ED25519_PUBLIC_KEY_LEN]

\* key_pair.sign(m): the 64-byte signature of m under k.
Sign(k, m) == [signer |-> k, msg |-> m, len |-> ED25519_SIGNATURE_LEN]

\* A byte vector one byte short of a signature (still a JSON array of u8).
Truncated(sig) == [sig EXCEPT !.len = sig.len - 1]

\* holder.rs build_payload, serialised by serde_json::to_string.
build_payload(k, message, sig, nonce) ==
    [fields |-> PayloadFields, nonce |-> nonce, message |-> message,
     signature |-> sig, public_key |-> PublicKeyBytes(k)]

\* holder.rs run_valid_check: sign wrong_message.unwrap_or(message), but
\* declare message in the payload.
run_valid_check_payload(k, message, nonce, message_to_sign) ==
    build_payload(k, message, Sign(k, message_to_sign), nonce)

\* A JSON body with the "signature" member left out.
WithoutSignatureField(b) == [b EXCEPT !.fields = PayloadFields \ {"signature"}]

\* The request bodies a connection may post to /verify.
HolderBodies ==
    { run_valid_check_payload(k, MESSAGE, n, MESSAGE) : k \in Keys, n \in Nonces }
    \cup { run_valid_check_payload("K1", MESSAGE, n, RANDOM_MESSAGE) : n \in Nonces }
ShortSignatureBodies ==
    { [b EXCEPT !.signature = Truncated(b.signature)] :
        b \in { run_valid_check_payload("K1", MESSAGE, n, MESSAGE) : n \in Nonces } }
MalformedBodies ==
    { WithoutSignatureField(b) :
        b \in { run_valid_check_payload("K1", MESSAGE, n, MESSAGE) : n \in Nonces } }
Bodies == HolderBodies \cup ShortSignatureBodies \cup MalformedBodies

NoBody == [fields |-> {}]

\* serde_json::from_str::<Payload>: Ok iff every field of Payload is there.
\* The byte fields are Vec<u8>: no length is checked while parsing.
ParsesAsPayload(b) == PayloadFields \subseteq b.fields

\* A check that binds the signature to the key but not to the message.
VerifySignatureMutWrongMsg(public_key, message, signature) ==
    /\ public_key.len = ED25519_PUBLIC_KEY_LEN
    /\ signature.len = ED25519_SIGNATURE_LEN
    /\ signature.signer = public_key.key

\* ring: UnparsedPublicKey::new(&ED25519, public_key).verify(message, signature)
VerifySignature(public_key, message, signature) ==
    /\ public_key.len = ED25519_PUBLIC_KEY_LEN
    /\ signature.len = ED25519_SIGNATURE_LEN
    /\ signature.signer = public_key.key
    /\ signature.msg = message

\* HTTP responses of the two handlers; RespNone: not answered yet.
RespNone == [status |-> 0, text |-> ""]
RespOk == [status |-> 200, text |-> "Signature verified successfully"]
\* Line 101 answering with the text of line 115.
RespNonceRejectedMutSameText == [status |-> 401, text |-> "Invalid Signature"]
\* Lines 101, 112 and 115.
RespNonceRejected == [status |-> 401, text |-> "Invalid or expired nonce"]
RespInvalidSignature == [status |-> 401, text |-> "Invalid Signature"]
\* The 400 that map_err builds on lines 86-91.
RespMalformed == [status |-> 400, text |-> "Failed to parse payload"]
\* Rocket turns a panicking handler into 500.
RespPanic == [status |-> 500, text |-> "Internal Server Error"]
RespNonce(n) == [status |-> 200, text |-> n]

\* ------------------------------------------------------------------ state
VARIABLES
    nonces,           \* NonceStore.nonces: HashMap<String, NonceEntry>
    expiration_time,  \* NonceStore.expiration_time
    now,              \* the monotonic clock Instant::now() reads
    issued,           \* the values Uuid::new_v4() has returned so far, each with its Instant::now()
    holder,           \* which connection holds the MutexGuard ("none": free)
    poisoned,         \* the Mutex's poison flag
    pc,               \* per connection: where its handler stands
    body,             \* per connection: the body posted to /verify, until answered
    nonce_arg,        \* per connection: the nonce its call passed to verify_and_use_nonce
    tc,               \* per connection: the return site verify_and_use_nonce took
    sig_checked,      \* per connection: the Ed25519 verification ran in this call
    resp,             \* per connection: the response of its finished handler
    accepted,         \* per nonce: calls of verify_and_use_nonce that returned true
    verdict,          \* per nonce: the /verify responses sent after consuming it
    test,             \* holder main(): the scenario running (1..4), 5 once main is through
    step,             \* holder: the statement of that scenario about to run
    key_pair,         \* holder: the key pair the scenario holds ("none": not yet)
    fetched,          \* holder: the nonce fetch_nonce returned ("none": not yet)
    keygen_failed,    \* holder: generate_keypair returned Err in this scenario
    calls,            \* holder: the HTTP requests this scenario has sent, in order
    printed           \* holder: the last line the scenario printed on stdout or stderr

\* The verifier process's variables, the holder process's, and all of them.
verifier_vars == <<nonces, expiration_time, now, issued, holder, poisoned,
                   pc, body, nonce_arg, tc, sig_checked, resp, accepted, verdict>>
holder_vars == <<test, step, key_pair, fetched, keygen_failed, calls, printed>>
vars == <<nonces, expiration_time, now, issued, holder, poisoned,
          pc, body, nonce_arg, tc, sig_checked, resp, accepted, verdict,
          test, step, key_pair, fetched, keygen_failed, calls, printed>>

\* ------------------------------------------------------------- NonceStore
\* NonceStore::new
NonceStoreNew(expiration_seconds) ==
    [nonces |-> << >>, expiration_time |-> expiration_seconds]

\* Line 43 written as `used: true`.
NewEntryMutUsed(t) == [created_at |-> t, used |-> TRUE]

\* NonceEntry { created_at: Instant::now(), used: false }
NewEntry(t) == [created_at |-> t, used |-> FALSE]

\* HashMap::insert (overwrites an entry under the same key)
Insert(map, k, v) == [x \in DOMAIN map \cup {k} |-> IF x = k THEN v ELSE map[x]]

\* Line 59 left out: the expired entry stays.
RemoveMutNoop(map, k) == map

\* Line 59 written as a clear of the whole map.
RemoveMutClear(map, k) == << >>

\* HashMap::remove
Remove(map, k) == [x \in DOMAIN map \ {k} |-> map[x]]

\* Instant::elapsed
Elapsed(created_at, t) == t - created_at

\* Line 58 written with >= (the boundary instant already expired).
IsExpiredMutGeq(entry, t, expiration) == Elapsed(entry.created_at, t) >= expiration

\* Line 58 written with the comparison turned around.
IsExpiredMutFlipped(entry, t, expiration) == Elapsed(entry.created_at, t) < expiration

\* verify_and_use_nonce line 58: created_at.elapsed() > self.expiration_time
IsExpired(entry, t, expiration) == Elapsed(entry.created_at, t) > expiration

\* The expiry check of lines 57-61 placed before the used check of 52-55.
LookupMutExpiryFirst(map, nonce, t, expiration) ==
    IF nonce \notin DOMAIN map THEN "Unknown"
    ELSE IF IsExpired(map[nonce], t, expiration) THEN "Expired"
    ELSE IF map[nonce].used THEN "AlreadyUsed"
    ELSE "Accepted"

\* The return site verify_and_use_nonce reaches on a store `map` at time t,
\* before it writes anything: lines 51-61 and 67.
Lookup(map, nonce, t, expiration) ==
    IF nonce \notin DOMAIN map THEN "Unknown"
    ELSE IF map[nonce].used THEN "AlreadyUsed"
    ELSE IF IsExpired(map[nonce], t, expiration) THEN "Expired"
    ELSE "Accepted"

\* Line 54 written as `return true`.
ReturnsTrueMutUsedToo(site) == site \in {"Accepted", "AlreadyUsed"}

\* The bool verify_and_use_nonce returns from that site.
ReturnsTrue(site) == site = "Accepted"

\* A generator that may repeat a value.
FreshUuidsMutAny == Nonces

\* Uuid::new_v4(): a value never returned before.
FreshUuids == Nonces \ DOMAIN issued

\* ------------------------------------------------------------------ mutex
\* A lock that never makes a caller wait.
MutexFreeMutNoExclusion == TRUE

\* Mutex::lock blocks until no guard is alive.
MutexFree == holder = "none"

\* std::sync::Mutex: a guard dropped while its thread is panicking sets the
\* poison flag (the guard of line 83 unwinding from the unwrap of line 92).
GuardDroppedInPanic(flag) == TRUE

\* A guard that is never dropped (leaked).
UnlockMutLeak(c) == holder

\* Dropping the MutexGuard of connection c.
Unlock(c) == IF holder = c THEN "none" ELSE holder

\* nonce_entry.used = true on the entry get_mut returned (line 64).
SetUsed(map, nonce) ==
    IF nonce \in DOMAIN map THEN [map EXCEPT ![nonce].used = TRUE] ELSE map

\* ----------------------------------------------------------------- holder
\* holder.rs FETCH_NONCE_URL and VERIFY_SIGNATURE_URL with their methods.
FETCH_NONCE_URL == "GET http://localhost:1843/nonce"
VERIFY_SIGNATURE_URL == "POST http://localhost:1843/verify"

\* The statements of test_1 .. test_4 that can fail or reach the network, in
\* source order. test_2 generates a second key pair between its two checks;
\* test_4 sleeps between the fetch and the check.
Script(t) ==
    CASE t = 1 -> <<"generate_keypair", "fetch_nonce", "run_valid_check">>
      [] t = 2 -> <<"generate_keypair", "fetch_nonce", "run_valid_check",
                    "generate_keypair", "run_valid_check">>
      [] t = 3 -> <<"generate_keypair", "fetch_nonce", "run_valid_check">>
      [] t = 4 -> <<"generate_keypair", "fetch_nonce", "sleep", "run_valid_check">>
      [] OTHER -> << >>

\* The last scenario main() calls.
LastTest == 4

\* The wrong_message argument each scenario passes to run_valid_check:
\* Some(b"RANDOM MESSAGE") in test_3, None elsewhere; unwrap_or(message).
MessageToSign(t) == IF t = 3 THEN RANDOM_MESSAGE ELSE MESSAGE

\* The scenario has returned to main().
Returned(t) == Len(Script(t)) + 1

\* An Err arm that only prints and goes on to the next statement.
OnErrMutFallThrough(t, i) == i + 1

\* The Err arm of every match in test_1 .. test_4: eprintln!, return.
OnErr(t, i) == Returned(t)

\* The Err strings of generate_keypair and of fetch_nonce.
KeygenErrors == {"Failed to generate Ed25519 Key Pair", "Failed to parse Ed25519 Key Pair"}
FetchErrors == {"Failed to fetch nonce", "Invalid nonce"}

\* What run_valid_check prints after verify_signature: Ok, the text of a 401,
\* or the fixed strings for another status and for a failed send.
VerifyPrints ==
    {"Signature verified successfully!", RespNonceRejected.text,
     RespInvalidSignature.text, "Failed to verify signature", "Failed to fetch nonce"}

\* The scenario is about to run the statement named s.
AtStep(s) ==
    /\ test \in 1 .. LastTest
    /\ step \in 1 .. Len(Script(test))
    /\ Script(test)[step] = s

\* main() about to call test_1.
HolderInit ==
    /\ test = 1
    /\ step = 1
    /\ key_pair = "none"
    /\ fetched = "none"
    /\ keygen_failed = FALSE
    /\ calls = << >>
    /\ printed = ""

\* ------------------------------------------------------------------- Init
Init ==
    /\ nonces = NonceStoreNew(ExpirationSeconds).nonces
    /\ expiration_time = NonceStoreNew(ExpirationSeconds).expiration_time
    /\ now = 0
    /\ issued = << >>
    /\ holder = "none"
    /\ poisoned = FALSE
    /\ pc = [c \in Clients |-> "idle"]
    /\ body = [c \in Clients |-> NoBody]
    /\ nonce_arg = [c \in Clients |-> "none"]
    /\ tc = [c \in Clients |-> "None"]
    /\ sig_checked = [c \in Clients |-> FALSE]
    /\ resp = [c \in Clients |-> RespNone]
    /\ accepted = [n \in Nonces |-> 0]
    /\ verdict = [n \in Nonces |-> {}]
    /\ HolderInit

\* ---------------------------------------------------------------- actions
\* The clock advances to a later instant.
Tick ==
    /\ \E t \in Instants : t > now /\ now' = t
    /\ UNCHANGED <<nonces, expiration_time, issued, holder, poisoned,
                   pc, body, nonce_arg, tc, sig_checked, resp, accepted, verdict>>
    /\ UNCHANGED holder_vars

Idle(c) == pc[c] \in {"idle", "done"}

\* A connection sends GET /nonce: the handler is entered.
NonceRequest(c) ==
    /\ Idle(c)
    /\ Cardinality(FreshUuids) > Cardinality({d \in Clients : pc[d] \in {"nonce_lock", "nonce_gen"}})
    /\ pc' = [pc EXCEPT ![c] = "nonce_lock"]
    /\ body' = [body EXCEPT ![c] = NoBody]
    /\ nonce_arg' = [nonce_arg EXCEPT ![c] = "none"]
    /\ tc' = [tc EXCEPT ![c] = "None"]
    /\ sig_checked' = [sig_checked EXCEPT ![c] = FALSE]
    /\ resp' = [resp EXCEPT ![c] = RespNone]
    /\ UNCHANGED <<nonces, expiration_time, now, issued, holder, poisoned,
                   accepted, verdict>>
    /\ UNCHANGED holder_vars

\* A connection sends POST /verify with body b: the handler is entered.
VerifyRequest(c, b) ==
    /\ Idle(c)
    /\ pc' = [pc EXCEPT ![c] = "verify_lock"]
    /\ body' = [body EXCEPT ![c] = b]
    /\ nonce_arg' = [nonce_arg EXCEPT ![c] = "none"]
    /\ tc' = [tc EXCEPT ![c] = "None"]
    /\ sig_checked' = [sig_checked EXCEPT ![c] = FALSE]
    /\ resp' = [resp EXCEPT ![c] = RespNone]
    /\ UNCHANGED <<nonces, expiration_time, now, issued, holder, poisoned,
                   accepted, verdict>>
    /\ UNCHANGED holder_vars

\* store.lock().unwrap() (lines 76 and 83): the guard is taken when the mutex
\* is free and not poisoned.
Lock(c) ==
    /\ pc[c] \in {"nonce_lock", "verify_lock"}
    /\ MutexFree
    /\ ~poisoned
    /\ holder' = c
    /\ pc' = [pc EXCEPT ![c] = IF pc[c] = "nonce_lock" THEN "nonce_gen" ELSE "parse"]
    /\ UNCHANGED <<nonces, expiration_time, now, issued, poisoned,
                   body, nonce_arg, tc, sig_checked, resp, accepted, verdict>>
    /\ UNCHANGED holder_vars

\* store.lock().unwrap() on a poisoned mutex: lock() is Err(PoisonError),
\* unwrap panics, the guard inside the error is dropped, Rocket answers 500.
LockPoisoned(c) ==
    /\ pc[c] \in {"nonce_lock", "verify_lock"}
    /\ MutexFree
    /\ poisoned
    /\ pc' = [pc EXCEPT ![c] = "done"]
    /\ body' = [body EXCEPT ![c] = NoBody]
    /\ resp' = [resp EXCEPT ![c] = RespPanic]
    /\ UNCHANGED <<nonces, expiration_time, now, issued, holder, poisoned,
                   nonce_arg, tc, sig_checked, accepted, verdict>>
    /\ UNCHANGED holder_vars

\* nonce(): store.generate_nonce(), then the guard is dropped on return.
GenerateNonce(c) ==
    /\ pc[c] = "nonce_gen"
    /\ \E n \in FreshUuids :
        /\ issued' = Insert(issued, n, now)
        /\ nonces' = Insert(nonces, n, NewEntry(now))
        /\ resp' = [resp EXCEPT ![c] = RespNonce(n)]
    /\ holder' = Unlock(c)
    /\ pc' = [pc EXCEPT ![c] = "done"]
    /\ UNCHANGED <<expiration_time, now, poisoned, body, nonce_arg, tc,
                   sig_checked, accepted, verdict>>
    /\ UNCHANGED holder_vars

\* verify_signature lines 85-92, body parses: on to line 100.
ParseOk(c) ==
    /\ pc[c] = "parse"
    /\ ParsesAsPayload(body[c])
    /\ pc' = [pc EXCEPT ![c] = "lookup"]
    /\ UNCHANGED <<nonces, expiration_time, now, issued, holder, poisoned,
                   body, nonce_arg, tc, sig_checked, resp, accepted, verdict>>
    /\ UNCHANGED holder_vars

\* verify_signature lines 85-92, body does not parse: map_err builds the 400
\* response as the Err value and .unwrap() panics on it. The guard taken on
\* line 83 is dropped while panicking, which poisons the mutex; Rocket
\* answers 500.
ParsePanic(c) ==
    /\ pc[c] = "parse"
    /\ ~ParsesAsPayload(body[c])
    /\ poisoned' = GuardDroppedInPanic(poisoned)
    /\ holder' = Unlock(c)
    /\ pc' = [pc EXCEPT ![c] = "done"]
    /\ body' = [body EXCEPT ![c] = NoBody]
    /\ resp' = [resp EXCEPT ![c] = RespPanic]
    /\ UNCHANGED <<nonces, expiration_time, now, issued,
                   nonce_arg, tc, sig_checked, accepted, verdict>>
    /\ UNCHANGED holder_vars

\* verify_and_use_nonce lines 51-61 and 67 reaching `return false`; the
\* expired entry is removed on the way. The handler returns 401 (line 101)
\* and the guard is dropped.
NonceRejected(c) ==
    /\ pc[c] = "lookup"
    /\ LET site == Lookup(nonces, body[c].nonce, now, expiration_time) IN
        /\ ~ReturnsTrue(site)
        /\ tc' = [tc EXCEPT ![c] = site]
        /\ nonces' = IF site = "Expired" THEN Remove(nonces, body[c].nonce) ELSE nonces
    /\ nonce_arg' = [nonce_arg EXCEPT ![c] = body[c].nonce]
    /\ holder' = Unlock(c)
    /\ pc' = [pc EXCEPT ![c] = "done"]
    /\ body' = [body EXCEPT ![c] = NoBody]
    /\ resp' = [resp EXCEPT ![c] = RespNonceRejected]
    /\ UNCHANGED <<expiration_time, now, issued, poisoned,
                   sig_checked, accepted, verdict>>
    /\ UNCHANGED holder_vars

\* verify_and_use_nonce lines 51-61 passing both checks: on to line 64.
NoncePassed(c) ==
    /\ pc[c] = "lookup"
    /\ LET site == Lookup(nonces, body[c].nonce, now, expiration_time) IN
        /\ ReturnsTrue(site)
        /\ tc' = [tc EXCEPT ![c] = site]
    /\ nonce_arg' = [nonce_arg EXCEPT ![c] = body[c].nonce]
    /\ pc' = [pc EXCEPT ![c] = "mark"]
    /\ UNCHANGED <<nonces, expiration_time, now, issued, holder, poisoned,
                   body, sig_checked, resp, accepted, verdict>>
    /\ UNCHANGED holder_vars

\* verify_and_use_nonce lines 64-65: nonce_entry.used = true; return true.
MarkUsed(c) ==
    /\ pc[c] = "mark"
    /\ nonces' = SetUsed(nonces, nonce_arg[c])
    /\ accepted' = [accepted EXCEPT ![nonce_arg[c]] = @ + 1]
    /\ pc' = [pc EXCEPT ![c] = "sig"]
    /\ UNCHANGED <<expiration_time, now, issued, holder, poisoned,
                   body, nonce_arg, tc, sig_checked, resp, verdict>>
    /\ UNCHANGED holder_vars

\* verify_signature lines 104-115: the Ed25519 check, the response, and the
\* guard dropped on return.
CheckSignature(c) ==
    /\ pc[c] = "sig"
    /\ sig_checked' = [sig_checked EXCEPT ![c] = TRUE]
    /\ resp' = [resp EXCEPT ![c] =
                   IF VerifySignature(body[c].public_key, body[c].message, body[c].signature)
                   THEN RespOk ELSE RespInvalidSignature]
    /\ verdict' = [verdict EXCEPT ![nonce_arg[c]] = @ \cup {resp'[c].text}]
    /\ holder' = Unlock(c)
    /\ pc' = [pc EXCEPT ![c] = "done"]
    /\ body' = [body EXCEPT ![c] = NoBody]
    /\ UNCHANGED <<nonces, expiration_time, now, issued, poisoned,
                   nonce_arg, tc, accepted>>
    /\ UNCHANGED holder_vars

Next ==
    \/ Tick
    \/ \E c \in Clients : NonceRequest(c)
    \/ \E c \in Clients : \E b \in Bodies : VerifyRequest(c, b)
    \/ \E c \in Clients : Lock(c)
    \/ \E c \in Clients : LockPoisoned(c)
    \/ \E c \in Clients : GenerateNonce(c)
    \/ \E c \in Clients : ParseOk(c)
    \/ \E c \in Clients : ParsePanic(c)
    \/ \E c \in Clients : NonceRejected(c)
    \/ \E c \in Clients : NoncePassed(c)
    \/ \E c \in Clients : MarkUsed(c)
    \/ \E c \in Clients : CheckSignature(c)

Spec == Init /\ [][Next]_vars

\* A step of connection c's handler past its lock(): straight-line code.
HandlerStep(c) ==
    \/ GenerateNonce(c)
    \/ ParseOk(c)
    \/ ParsePanic(c)
    \/ NonceRejected(c)
    \/ NoncePassed(c)
    \/ MarkUsed(c)
    \/ CheckSignature(c)

\* Fair scheduling: a handler's thread keeps running, and a caller blocked in
\* lock() gets the mutex if it is free again and again.
Fairness ==
    \A c \in Clients :
        /\ WF_vars(HandlerStep(c))
        /\ WF_vars(LockPoisoned(c))
        /\ SF_vars(Lock(c))

\* The bodies posted in the fair runs: one per way through the handler
\* (genuine proof, wrong message signed, body that does not parse).
FairBodies ==
    { run_valid_check_payload("K1", MESSAGE, "n1", MESSAGE),
      run_valid_check_payload("K1", MESSAGE, "n1", RANDOM_MESSAGE),
      WithoutSignatureField(run_valid_check_payload("K1", MESSAGE, "n1", MESSAGE)) }

FairNext ==
    \/ Tick
    \/ \E c \in Clients : NonceRequest(c)
    \/ \E c \in Clients : \E b \in FairBodies : VerifyRequest(c, b)
    \/ \E c \in Clients : Lock(c)
    \/ \E c \in Clients : LockPoisoned(c)
    \/ \E c \in Clients : HandlerStep(c)

FairSpec == Init /\ [][FairNext]_vars /\ Fairness

\* ---------------------------------------------------------- holder actions
\* generate_keypair() returns Ok(key_pair): the match binds it.
KeygenOk ==
    /\ AtStep("generate_keypair")
    /\ \E k \in Keys : key_pair' = k
    /\ step' = step + 1
    /\ UNCHANGED <<test, fetched, keygen_failed, calls, printed>>
    /\ UNCHANGED verifier_vars

\* generate_keypair() returns Err(e): eprintln!("Error: {}", e); return.
KeygenErr ==
    /\ AtStep("generate_keypair")
    /\ \E e \in KeygenErrors : printed' = e
    /\ keygen_failed' = TRUE
    /\ step' = OnErr(test, step)
    /\ UNCHANGED <<test, key_pair, fetched, calls>>
    /\ UNCHANGED verifier_vars

\* fetch_nonce() sends GET /nonce and returns Ok(nonce).
FetchNonceOk ==
    /\ AtStep("fetch_nonce")
    /\ calls' = Append(calls, [url |-> FETCH_NONCE_URL, body |-> NoBody])
    /\ \E n \in Nonces : fetched' = n
    /\ step' = step + 1
    /\ UNCHANGED <<test, key_pair, keygen_failed, printed>>
    /\ UNCHANGED verifier_vars

\* fetch_nonce() sends GET /nonce and returns Err (the send or the read
\* failed, or the text is no uuid): eprintln!, return.
FetchNonceErr ==
    /\ AtStep("fetch_nonce")
    /\ calls' = Append(calls, [url |-> FETCH_NONCE_URL, body |-> NoBody])
    /\ \E e \in FetchErrors : printed' = e
    /\ step' = OnErr(test, step)
    /\ UNCHANGED <<test, key_pair, fetched, keygen_failed>>
    /\ UNCHANGED verifier_vars

\* test_4: thread::sleep(6 s).
Sleep ==
    /\ AtStep("sleep")
    /\ step' = step + 1
    /\ UNCHANGED <<test, key_pair, fetched, keygen_failed, calls, printed>>
    /\ UNCHANGED verifier_vars

\* run_valid_check: sign (infallible), build_payload, verify_signature posts
\* the payload, and the outcome is printed; the scenario goes on either way.
RunValidCheck ==
    /\ AtStep("run_valid_check")
    /\ calls' = Append(calls,
                    [url |-> VERIFY_SIGNATURE_URL,
                     body |-> run_valid_check_payload(key_pair, MESSAGE, fetched,
                                                     MessageToSign(test))])
    /\ \E line \in VerifyPrints : printed' = line
    /\ step' = step + 1
    /\ UNCHANGED <<test, key_pair, fetched, keygen_failed>>
    /\ UNCHANGED verifier_vars

\* The scenario returns and main() calls the next one with fresh locals.
TestReturns ==
    /\ test \in 1 .. LastTest
    /\ step = Returned(test)
    /\ test' = test + 1
    /\ step' = 1
    /\ key_pair' = "none"
    /\ fetched' = "none"
    /\ keygen_failed' = FALSE
    /\ calls' = << >>
    /\ printed' = ""
    /\ UNCHANGED verifier_vars

HolderNext ==
    \/ KeygenOk
    \/ KeygenErr
    \/ FetchNonceOk
    \/ FetchNonceErr
    \/ Sleep
    \/ RunValidCheck
    \/ TestReturns

HolderSpec == Init /\ [][HolderNext]_vars

\* ------------------------------------------------------ shared vocabulary
\* The program counters of a /verify call that has not answered yet.
VerifyPcs == {"verify_lock", "parse", "lookup", "mark", "sig"}

\* Connection c's /verify call answers in this step.
VerifyAnswers(c) == pc[c] \in VerifyPcs /\ pc'[c] = "done"

\* Connection c's call runs the first half of verify_and_use_nonce in this step.
ConsumeStep(c) == pc[c] = "lookup" /\ pc'[c] # "lookup"

\* The signature of b is the one its declared key pair makes over exactly its
\* declared message.
Genuine(b) ==
    \E k \in Keys : b.public_key = PublicKeyBytes(k) /\ b.signature = Sign(k, b.message)

RejectSites == {"Unknown", "AlreadyUsed", "Expired"}

\* ----------------------------------------------------------------- claims
\* C1 (single-use): for every challenge identity, over every interleaving of
\* the connections' /verify calls, at most one call of verify_and_use_nonce
\* returns true.
C1_SingleUse == \A n \in Nonces : accepted[n] <= 1

\* C1 witness: one call consumed n while another call on the same n, already
\* answered, was turned away as already used.
C1_Witness ==
    \E n \in Nonces : \E c, d \in Clients :
        /\ c # d
        /\ accepted[n] = 1
        /\ nonce_arg[c] = n /\ tc[c] = "Accepted"
        /\ nonce_arg[d] = n /\ tc[d] = "AlreadyUsed" /\ pc[d] = "done"

\* C2 (Valid iff consumed and genuine): a /verify call answers 200 "Signature
\* verified successfully" exactly when verify_and_use_nonce returned true in
\* that same call and the signature is the declared key's signature over
\* exactly the declared message; every other answer is not Valid.
C2_ValidIff ==
    [][\A c \in Clients :
          VerifyAnswers(c) =>
              ((resp'[c] = RespOk) <=>
                  (ParsesAsPayload(body[c]) /\ tc'[c] = "Accepted" /\ Genuine(body[c])))]_vars

\* C2 witness: both sides of the equivalence have been seen: a call answered
\* Valid after consuming its nonce, and another consumed its nonce and was
\* refused for its signature.
C2_Witness ==
    \E c, d \in Clients :
        /\ pc[c] = "done" /\ resp[c] = RespOk /\ tc[c] = "Accepted" /\ sig_checked[c]
        /\ pc[d] = "done" /\ resp[d] = RespInvalidSignature /\ tc[d] = "Accepted"

\* C3 (burn-on-failure), as claimed: a /verify call carrying a live,
\* unconsumed nonce with a signature that is not genuine answers 401 "Invalid
\* Signature" and leaves the nonce consumed; and every well-formed /verify
\* call carrying a nonce that was already answered "Invalid Signature"
\* answers 401 "Invalid or expired nonce" from the already-used return site,
\* whatever its signature.
C3_BurnOnFailure ==
    [][\A c \in Clients :
          LET n == body[c].nonce IN
          (VerifyAnswers(c) /\ ParsesAsPayload(body[c])) =>
              /\ ( /\ ~Genuine(body[c])
                   /\ \/ tc[c] = "Accepted"
                      \/ Lookup(nonces, n, now, expiration_time) = "Accepted" )
                    => ( /\ resp'[c] = RespInvalidSignature
                         /\ n \in DOMAIN nonces' /\ nonces'[n].used )
              /\ (RespInvalidSignature.text \in verdict[n])
                    => (resp'[c] = RespNonceRejected /\ tc'[c] = "AlreadyUsed")]_vars

\* C4 (replay rejection), as claimed: once a /verify call carrying nonce n
\* has answered Valid, every later well-formed /verify call carrying n
\* answers 401 "Invalid or expired nonce" from the already-used return site,
\* whichever key pair signed it.
C4_ReplayRejected ==
    [][\A c \in Clients :
          (VerifyAnswers(c) /\ ParsesAsPayload(body[c])
              /\ RespOk.text \in verdict[body[c].nonce])
            => (resp'[c] = RespNonceRejected /\ tc'[c] = "AlreadyUsed")]_vars

\* Connection c's call reads the store for a nonce whose expiration window
\* has closed and that no call has consumed.
LateConsume(c) ==
    /\ ConsumeStep(c)
    /\ body[c].nonce \in DOMAIN issued
    /\ now > issued[body[c].nonce] + expiration_time
    /\ accepted[body[c].nonce] = 0

\* C5 as claimed: verify_and_use_nonce called after created(n) + expiration,
\* with no successful consumption of n before, returns from the expired site.
C5_LateIsExpired ==
    [][\A c \in Clients : LateConsume(c) => tc'[c] = "Expired"]_vars

\* C5 (expiration monotonicity), amended: such a call never returns true; it
\* returns from the expired site, evicting the entry, when the entry is still
\* in the store, and from the unknown site when an earlier late call evicted
\* it; the /verify call answers 401 "Invalid or expired nonce" either way.
C5_LateNeverAccepted ==
    [][\A c \in Clients :
          LateConsume(c) =>
              /\ tc'[c] = (IF body[c].nonce \in DOMAIN nonces THEN "Expired" ELSE "Unknown")
              /\ body[c].nonce \notin DOMAIN nonces'
              /\ accepted' = accepted
              /\ pc'[c] = "done" /\ resp'[c] = RespNonceRejected]_vars

\* C5 witness: a nonce issued more than the window ago was turned away as
\* expired in one call and as unknown in a later one.
C5_Witness ==
    \E n \in DOMAIN issued : \E c, d \in Clients :
        /\ now > issued[n] + expiration_time
        /\ pc[c] = "done" /\ nonce_arg[c] = n /\ tc[c] = "Expired"
        /\ pc[d] = "done" /\ nonce_arg[d] = n /\ tc[d] = "Unknown"
        /\ n \notin DOMAIN nonces

\* C6 (short-circuit): the Ed25519 check is reached, and has run, only in a
\* call whose verify_and_use_nonce returned from the accepted site; a call
\* turned away as unknown, already used or expired has answered without it.
C6_ShortCircuit ==
    \A c \in Clients :
        /\ (pc[c] = "sig" \/ sig_checked[c]) => tc[c] = "Accepted"
        /\ tc[c] \in RejectSites => (~sig_checked[c] /\ pc[c] = "done")

\* C6 witness: one call was turned away at the nonce without the signature
\* check, another passed the nonce and ran it.
C6_Witness ==
    \E c, d \in Clients :
        /\ pc[c] = "done" /\ tc[c] \in RejectSites /\ ~sig_checked[c]
        /\ resp[c] = RespNonceRejected
        /\ pc[d] = "done" /\ tc[d] = "Accepted" /\ sig_checked[d]

\* What the caller is told apart by, per the error taxonomy.
Reason(c) ==
    IF tc[c] \in RejectSites THEN tc[c]
    ELSE IF tc[c] = "Accepted" /\ sig_checked[c] /\ resp[c] # RespOk THEN "SignatureInvalid"
    ELSE "NoRejection"

\* C7 as claimed: two answered calls turned away for different reasons
\* (unknown, already used, expired, invalid signature) got different
\* responses.
C7_FourDistinctReasons ==
    \A c, d \in Clients :
        (pc[c] = "done" /\ pc[d] = "done"
            /\ Reason(c) # "NoRejection" /\ Reason(d) # "NoRejection"
            /\ Reason(c) # Reason(d))
          => resp[c] # resp[d]

\* C7 (rejection reasons), amended: every call turned away at the nonce,
\* whether unknown, already used or expired, gets the one response 401
\* "Invalid or expired nonce"; a call that consumed its nonce gets Valid or
\* 401 "Invalid Signature"; so the caller tells a nonce rejection from a
\* signature rejection, and nothing finer.
C7_TwoReasons ==
    \A c, d \in Clients :
        /\ (pc[c] = "done" /\ tc[c] \in RejectSites) => resp[c] = RespNonceRejected
        /\ (pc[c] = "done" /\ tc[c] = "Accepted") => resp[c] \in {RespOk, RespInvalidSignature}
        /\ (pc[c] = "done" /\ pc[d] = "done" /\ tc[c] \in RejectSites /\ tc[d] = "Accepted")
              => resp[c].text # resp[d].text

\* C7 witness: two calls turned away for different nonce reasons hold the
\* same response, while a third reason, the signature, reads differently.
C7_Witness ==
    \E c, d \in Clients :
        /\ pc[c] = "done" /\ pc[d] = "done"
        /\ tc[c] = "Expired" /\ tc[d] = "Unknown"
        /\ resp[c] = resp[d]
        /\ resp[c] # RespInvalidSignature

\* A body the error taxonomy calls malformed: a field missing, or a
\* fixed-size field of the wrong length.
MalformedProof(b) ==
    \/ ~ParsesAsPayload(b)
    \/ b.public_key.len # ED25519_PUBLIC_KEY_LEN
    \/ b.signature.len # ED25519_SIGNATURE_LEN

\* C8 (malformed proof), as claimed: no step of a /verify call with a
\* malformed body touches the store, consults the nonce or runs the
\* signature check, and the call answers with the malformed-payload
\* rejection.
C8_MalformedRejected ==
    [][\A c \in Clients :
          (pc[c] \in VerifyPcs /\ pc'[c] # pc[c] /\ MalformedProof(body[c])) =>
              /\ nonces' = nonces
              /\ poisoned' = poisoned
              /\ tc'[c] = "None"
              /\ ~sig_checked'[c]
              /\ pc'[c] = "done" => resp'[c] = RespMalformed]_vars

\* C9 (usability): verify_and_use_nonce returns from the accepted site
\* exactly when the nonce has an entry, the entry is unused and
\* now - created_at <= expiration_time, the boundary included; each call
\* returns from exactly one of the four sites, and goes on to mark the entry
\* exactly when that site is the accepted one.
C9_AcceptedIffUsable ==
    [][\A c \in Clients :
          ConsumeStep(c) =>
              LET n == body[c].nonce IN
              /\ tc'[c] \in {"Accepted"} \cup RejectSites
              /\ (tc'[c] = "Accepted") <=>
                    ( /\ n \in DOMAIN nonces
                      /\ ~nonces[n].used
                      /\ now - nonces[n].created_at <= expiration_time )
              /\ (pc'[c] = "mark") <=> (tc'[c] = "Accepted")]_vars

\* C9 witness: a call has just been accepted at the boundary
\* now - created_at = expiration_time.
C9_Witness ==
    \E c \in Clients :
        /\ pc[c] = "mark" /\ tc[c] = "Accepted"
        /\ nonce_arg[c] \in DOMAIN nonces
        /\ now - nonces[nonce_arg[c]].created_at = expiration_time

\* The program counters at which a /verify call is past line 83.
InsideVerify == {"parse", "lookup", "mark", "sig"}

\* C10 as claimed: the guard is gone when the Ed25519 check starts.
C10_SigOutsideLock == \A c \in Clients : pc[c] = "sig" => holder # c

\* C10 (lock scope), amended: the guard taken on line 83 is held until the
\* handler returns, the Ed25519 check included; while one call stands
\* anywhere between parsing and its answer no other call is past its lock().
C10_SigUnderLock ==
    \A c \in Clients :
        pc[c] \in InsideVerify =>
            /\ holder = c
            /\ \A d \in Clients \ {c} : pc[d] \notin InsideVerify \cup {"nonce_gen"}

\* C10 witness: one call is at its signature check holding the guard while
\* another connection's request waits in lock().
C10_Witness ==
    \E c, d \in Clients :
        /\ c # d
        /\ pc[c] = "sig" /\ holder = c
        /\ pc[d] \in {"nonce_lock", "verify_lock"}

\* Connection c's /nonce call answers in this step.
IssueAnswers(c) == pc[c] = "nonce_gen" /\ pc'[c] = "done"

\* C11 (issue visibility): generate_nonce has put the identity it returns in
\* the store, unused and stamped with the current instant, by the time the
\* answer exists; and under every interleaving a verify_and_use_nonce on an
\* issued identity that no call has consumed, run within the expiration
\* window, returns from the accepted site, never from the unknown one.
C11_IssueVisible ==
    [][\A c \in Clients :
          /\ IssueAnswers(c) =>
                \E n \in Nonces :
                    /\ resp'[c] = RespNonce(n)
                    /\ n \in DOMAIN nonces'
                    /\ nonces'[n] = [created_at |-> now, used |-> FALSE]
          /\ ( /\ ConsumeStep(c)
               /\ body[c].nonce \in DOMAIN issued
               /\ accepted[body[c].nonce] = 0
               /\ now - issued[body[c].nonce] <= expiration_time )
                => tc'[c] = "Accepted"]_vars

\* C11 witness: at the very instant of issue, a /verify call of another
\* connection has consumed the identity a /nonce call returned.
C11_Witness ==
    \E c, d \in Clients : \E n \in Nonces :
        /\ c # d
        /\ pc[c] = "done" /\ resp[c] = RespNonce(n)
        /\ nonce_arg[d] = n /\ tc[d] = "Accepted" /\ pc[d] = "sig"
        /\ issued[n] = now

\* Identities issued once and no longer in the store.
Evicted == DOMAIN issued \ DOMAIN nonces

\* C12 (lazy eviction): a verify_and_use_nonce that finds the entry present,
\* unused and older than the expiration removes it and returns from the
\* expired site; an evicted identity stays out of the store, and every later
\* verify_and_use_nonce on it returns from the unknown site.
C12_LazyEviction ==
    [][/\ \A c \in Clients :
            LET n == body[c].nonce IN
            ConsumeStep(c) =>
                /\ ( /\ n \in DOMAIN nonces
                     /\ ~nonces[n].used
                     /\ now - nonces[n].created_at > expiration_time )
                      => (tc'[c] = "Expired" /\ n \notin DOMAIN nonces')
                /\ n \in Evicted => tc'[c] = "Unknown"
       /\ \A n \in Evicted : n \notin DOMAIN nonces']_vars

\* C12 witness: the call that evicted the entry has answered, and a call of
\* the other connection on the same identity is now past the unknown site.
C12_Witness ==
    \E c, d \in Clients : \E n \in Evicted :
        /\ c # d
        /\ nonce_arg[c] = n /\ tc[c] = "Expired" /\ resp[c] = RespNonceRejected
        /\ nonce_arg[d] = n /\ tc[d] = "Unknown" /\ resp[d] = RespNonceRejected
        /\ accepted[n] = 0

\* C13 (consumption is irreversible): an identity for which
\* verify_and_use_nonce has returned true keeps its entry, with used = true
\* and its creation instant, in every later state, whatever /nonce and
\* /verify calls follow and however far the clock runs past the window.
C13_ConsumedForever ==
    \A n \in Nonces :
        accepted[n] >= 1 =>
            /\ n \in DOMAIN nonces
            /\ nonces[n] = [created_at |-> issued[n], used |-> TRUE]

\* C13 witness: a consumed identity, past its expiration window, has been
\* looked up again (already used) and is still there, while the other
\* identity has been issued since.
C13_Witness ==
    \E n \in Nonces : \E c \in Clients :
        /\ accepted[n] = 1
        /\ now > issued[n] + expiration_time
        /\ pc[c] = "done" /\ nonce_arg[c] = n /\ tc[c] = "AlreadyUsed"
        /\ \E m \in DOMAIN issued : m # n /\ issued[m] > issued[n] + expiration_time

\* An identity is live: in the store and unused.
Live(map, n) == n \in DOMAIN map /\ ~map[n].used

\* C14 (token uniqueness): a /nonce call never answers with an identity that
\* an earlier call returned or that has an entry, so generate_nonce's insert
\* never lands on an existing entry; the store holds entries only for issued
\* identities, each stamped with its one instant of issue; and an identity
\* that was consumed or evicted is never live again.
C14_TokenUnique ==
    [][/\ \A c \in Clients :
            IssueAnswers(c) =>
                /\ resp'[c].text \in Nonces \ (DOMAIN issued \cup DOMAIN nonces)
                /\ DOMAIN nonces' = DOMAIN nonces \cup {resp'[c].text}
       /\ \A n \in DOMAIN nonces' : n \in DOMAIN issued' /\ nonces'[n].created_at = issued'[n]
       /\ \A n \in DOMAIN issued : ~Live(nonces, n) => ~Live(nonces', n)]_vars

\* C14 witness: both identities have been handed out, to different calls; one
\* was consumed and the other evicted, and neither is live.
C14_Witness ==
    \E c, d \in Clients : \E n, m \in DOMAIN issued :
        /\ n # m
        /\ resp[c] = RespNonce(m) /\ pc[d] = "done" /\ tc[d] = "Expired" /\ nonce_arg[d] = n
        /\ n \in Evicted
        /\ accepted[m] = 1 /\ ~Live(nonces, m)

\* The store as verify_and_use_nonce and generate_nonce see it.
Store == [nonces |-> nonces, expiration_time |-> expiration_time]

\* The entries of every identity but n are the same before and after.
OthersKept(n) ==
    /\ DOMAIN nonces' \ {n} = DOMAIN nonces \ {n}
    /\ \A m \in DOMAIN nonces \ {n} : nonces'[m] = nonces[m]

\* C18 (frame): both halves of verify_and_use_nonce leave the entry of every
\* other identity and the expiration duration as they were; a call returning
\* from the unknown or the already-used site leaves the whole store as it
\* was; generate_nonce adds exactly one entry and changes no existing one.
C18_Frame ==
    [][\A c \in Clients :
          /\ (ConsumeStep(c) \/ (pc[c] = "mark" /\ pc'[c] = "sig")) =>
                /\ OthersKept(body[c].nonce)
                /\ expiration_time' = expiration_time
          /\ (ConsumeStep(c) /\ tc'[c] \in {"Unknown", "AlreadyUsed"}) => Store' = Store
          /\ IssueAnswers(c) =>
                /\ Cardinality(DOMAIN nonces') = Cardinality(DOMAIN nonces) + 1
                /\ \A m \in DOMAIN nonces : m \in DOMAIN nonces' /\ nonces'[m] = nonces[m]
                /\ expiration_time' = expiration_time]_vars

\* C18 witness: one identity's entry has been evicted by an expired call
\* while the other identity's entry, issued at the same instant, is still in
\* the store untouched.
C18_Witness ==
    \E c \in Clients : \E n \in Evicted : \E m \in DOMAIN nonces :
        /\ pc[c] = "done" /\ tc[c] = "Expired" /\ nonce_arg[c] = n
        /\ issued[m] = issued[n]
        /\ nonces[m] = [created_at |-> issued[m], used |-> FALSE]

\* C17 (availability after a bad request), as claimed: whatever bodies were
\* posted before, a /nonce call answers with a fresh identity, and a /verify
\* call carrying a live, unexpired identity with a genuine signature answers
\* Valid.
C17_StillUsable ==
    [][\A c \in Clients :
          /\ (pc[c] \in {"nonce_lock", "nonce_gen"} /\ pc'[c] = "done")
                => \E n \in Nonces : resp'[c] = RespNonce(n)
          /\ ( /\ VerifyAnswers(c)
               /\ ParsesAsPayload(body[c]) /\ Genuine(body[c])
               /\ \/ tc[c] = "Accepted"
                  \/ Lookup(nonces, body[c].nonce, now, expiration_time) = "Accepted" )
                => resp'[c] = RespOk]_vars

\* The program counters at which a handler is past its lock().
PastLock == InsideVerify \cup {"nonce_gen"}

Sent(url) == \E i \in 1 .. Len(calls) : calls[i].url = url

\* C16 (prover-side abort ordering): in each holder scenario, a failed
\* generate_keypair makes the scenario return at once, and from the failure
\* until main() starts the next scenario no request is sent, neither a nonce
\* fetch nor a proof submission.
C16_AbortBeforeNetwork ==
    [][ /\ keygen_failed' => step' = Returned(test')
        /\ (keygen_failed /\ test' = test) => calls' = calls ]_vars

\* C16 witness: test_2's second generate_keypair has failed after the first
\* check went out, the scenario has returned, and the second check was never
\* posted.
C16_Witness ==
    /\ test = 2
    /\ keygen_failed
    /\ step = Returned(test)
    /\ calls = << [url |-> FETCH_NONCE_URL, body |-> NoBody],
                  [url |-> VERIFY_SIGNATURE_URL,
                   body |-> run_valid_check_payload(key_pair, MESSAGE, fetched, MESSAGE)] >>

====
